---------------------------- MODULE Spec2Model ----------------------------
(***************************************************************************)
(* Model of src/server.py: the curated MCP server.  One invocation of     *)
(* call_tool or read_resource at a time runs from its entry to its return *)
(* (or to an exception leaving the handler), suspending at each outbound  *)
(* "await client.get(...)".  The upstream is the environment: it answers  *)
(* with any status and body, fails at the network level, or stays silent  *)
(* until httpx's default timeout fires.                                    *)
(*                                                                         *)
(* TLA+ strings are ASCII, so each emoji of the source is written as an    *)
(* ASCII tag in brackets (the cross mark of the error messages is "[X]").  *)
(***************************************************************************)
EXTENDS Integers, Sequences, FiniteSets, TLC

(***************************************************************************)
(* Strings.                                                                *)
(***************************************************************************)
Char(s, i) == SubSeq(s, i, i)

StartsWith(s, p) == Len(p) <= Len(s) /\ SubSeq(s, 1, Len(p)) = p

Contains(s, sub) ==
    \E i \in 1..(Len(s) - Len(sub) + 1) : SubSeq(s, i, i + Len(sub) - 1) = sub

UpperChars == "ABCDEFGHIJKLMNOPQRSTUVWXYZ"

LowerChars == "abcdefghijklmnopqrstuvwxyz"

IsUpper(c) == \E i \in 1..Len(UpperChars) : Char(UpperChars, i) = c

IsLower(c) == \E i \in 1..Len(LowerChars) : Char(LowerChars, i) = c

ToLowerChar(c) ==
    IF IsUpper(c)
    THEN Char(LowerChars, CHOOSE i \in 1..Len(UpperChars) : Char(UpperChars, i) = c)
    ELSE c

ToUpperChar(c) ==
    IF IsLower(c)
    THEN Char(UpperChars, CHOOSE i \in 1..Len(LowerChars) : Char(LowerChars, i) = c)
    ELSE c

RECURSIVE Lower(_)
\* str.lower()
Lower(s) ==
    IF s = "" THEN ""
    ELSE Lower(SubSeq(s, 1, Len(s) - 1)) \o ToLowerChar(Char(s, Len(s)))

RECURSIVE Title(_)
\* str.title(): a cased character is upper case after an uncased one (or at
\* the start) and lower case after a cased one.
Title(s) ==
    IF s = "" THEN ""
    ELSE LET n    == Len(s)
             c    == Char(s, n)
             prev == IF n = 1 THEN " " ELSE Char(s, n - 1)
             cased == IsUpper(prev) \/ IsLower(prev)
         IN  Title(SubSeq(s, 1, n - 1))
                 \o (IF cased THEN ToLowerChar(c) ELSE ToUpperChar(c))

IsSpace(c) == c \in {" ", "\n", "\t", "\r"}

RECURSIVE LStrip(_)
LStrip(s) ==
    IF s # "" /\ IsSpace(Char(s, 1)) THEN LStrip(SubSeq(s, 2, Len(s))) ELSE s

RECURSIVE RStrip(_)
RStrip(s) ==
    IF s # "" /\ IsSpace(Char(s, Len(s))) THEN RStrip(SubSeq(s, 1, Len(s) - 1)) ELSE s

\* str.strip()
Strip(s) == LStrip(RStrip(s))

RECURSIVE Join(_, _)
\* sep.join(parts) for a sequence of strings
Join(sep, parts) ==
    IF Len(parts) = 0 THEN ""
    ELSE IF Len(parts) = 1 THEN parts[1]
    ELSE Join(sep, SubSeq(parts, 1, Len(parts) - 1)) \o sep \o parts[Len(parts)]

Min(a, b) == IF a <= b THEN a ELSE b

Max(a, b) == IF a >= b THEN a ELSE b

\* seq[:n] of Python: the first n items, or all but the last -n when n < 0.
SliceTo(seq, n) ==
    IF n >= 0 THEN SubSeq(seq, 1, Min(n, Len(seq)))
    ELSE SubSeq(seq, 1, Max(Len(seq) + n, 0))

(***************************************************************************)
(* Decoded JSON values, as response.json() hands them to the handlers:    *)
(* a tag t and, by the tag, the number n (1 and 0 for true and false), the *)
(* string s, the items of a list, or the keys and the items of an object.  *)
(* An object keeps its members in order, as a Python dict does, and its    *)
(* keys are distinct.                                                      *)
(***************************************************************************)
JValue(t, n, s, keys, items) ==
    [t |-> t, n |-> n, s |-> s, keys |-> keys, items |-> items]

JNull == JValue("null", 0, "", <<>>, <<>>)

JBool(b) == JValue("bool", IF b THEN 1 ELSE 0, "", <<>>, <<>>)

JNum(n) == JValue("num", n, "", <<>>, <<>>)

JStr(s) == JValue("str", 0, s, <<>>, <<>>)

JArr(items) == JValue("arr", 0, "", <<>>, items)

KV(key, val) == [k |-> key, v |-> val]

\* The object with these members, a sequence of KV(key, value)
JObj(pairs) ==
    JValue("obj", 0, "", [i \in 1..Len(pairs) |-> pairs[i].k],
           [i \in 1..Len(pairs) |-> pairs[i].v])

IsDict(j) == j.t = "obj"

IsList(j) == j.t = "arr"

IsStr(j) == j.t = "str"

IsNum(j) == j.t = "num"

\* bool(j) of Python
Truthy(j) ==
    CASE j.t = "null" -> FALSE
      [] j.t = "bool" -> j.n = 1
      [] j.t = "num"  -> j.n # 0
      [] j.t = "str"  -> j.s # ""
      [] OTHER        -> Len(j.items) > 0

\* key in d, for a dict d
HasKey(d, key) == \E i \in 1..Len(d.keys) : d.keys[i] = key

\* d[key], for a dict d that has the key
Lookup(d, key) == d.items[CHOOSE i \in 1..Len(d.keys) : d.keys[i] = key]

\* d.get(key, default), for a dict d
DictGet(d, key, default) == IF HasKey(d, key) THEN Lookup(d, key) ELSE default

\* d.get(key), for a dict d
DictGetNone(d, key) == DictGet(d, key, JNull)

RECURSIVE PyRepr(_)
\* repr(j), and str(j) for everything but a string
PyRepr(j) ==
    CASE j.t = "null" -> "None"
      [] j.t = "bool" -> IF j.n = 1 THEN "True" ELSE "False"
      [] j.t = "num"  -> ToString(j.n)
      [] j.t = "str"  -> "'" \o j.s \o "'"
      [] j.t = "arr"  ->
           "[" \o Join(", ", [i \in 1..Len(j.items) |-> PyRepr(j.items[i])]) \o "]"
      [] OTHER ->
           "{" \o Join(", ", [i \in 1..Len(j.items) |->
                                 "'" \o j.keys[i] \o "': " \o PyRepr(j.items[i])])
               \o "}"

\* str(j): what an f-string field renders
PyStr(j) == IF j.t = "str" THEN j.s ELSE PyRepr(j)

(***************************************************************************)
(* Exceptions and what a stretch of handler code ends with: the next       *)
(* "await client.get(url)", a return, or an exception on its way up.       *)
(***************************************************************************)
Exc(type, msg) == [type |-> type, msg |-> msg]

NoExc == Exc("", "")

NoLocals == [city |-> "", country |-> "", query |-> "", limit |-> 0, joke_type |-> ""]

Await(url, locals) ==
    [kind |-> "await", url |-> url, locals |-> locals, value |-> <<>>, exc |-> NoExc]

Return(value) ==
    [kind |-> "return", url |-> "", locals |-> NoLocals, value |-> value, exc |-> NoExc]

Raise(e) ==
    [kind |-> "raise", url |-> "", locals |-> NoLocals, value |-> <<>>, exc |-> e]

TextContent(text) == [type |-> "text", text |-> text]

\* What "await client.get(url)" comes back with: a response, whose body
\* response.json() decodes (isJson) to the value body or fails on, or an
\* exception of the transport.
Response(status, isJson, body) ==
    [kind |-> "response", status |-> status, isJson |-> isJson, body |-> body,
     exc |-> NoExc]

ClientError(e) ==
    [kind |-> "error", status |-> 0, isJson |-> FALSE, body |-> JNull, exc |-> e]

JSONDecodeError == Exc("JSONDecodeError", "Expecting value: line 1 column 1 (char 0)")

AttributeError(j) == Exc("AttributeError", "object has no attribute 'get'")

\* The exception of j.get(...), NoExc for a dict
GetExc(j) == IF IsDict(j) THEN NoExc ELSE AttributeError(j)

\* The exception of j[0], NoExc when j is a non-empty list or string
Index0Exc(j) ==
    CASE j.t = "arr" -> IF Len(j.items) = 0 THEN Exc("IndexError", "list index out of range")
                        ELSE NoExc
      [] j.t = "str" -> IF j.s = "" THEN Exc("IndexError", "string index out of range")
                        ELSE NoExc
      [] j.t = "obj" -> Exc("KeyError", "0")
      [] OTHER       -> Exc("TypeError", "object is not subscriptable")

\* j[0], for a non-empty list or string
Index0(j) == IF j.t = "arr" THEN j.items[1] ELSE JStr(Char(j.s, 1))

\* The exception of j[key] for a string key, NoExc for a dict that has it
KeyExc(j, key) ==
    CASE j.t = "obj" -> IF HasKey(j, key) THEN NoExc ELSE Exc("KeyError", "'" \o key \o "'")
      [] j.t \in {"arr", "str"} -> Exc("TypeError", "indices must be integers")
      [] OTHER -> Exc("TypeError", "object is not subscriptable")

\* The decoded body of a response, for a response whose body decodes
ResponseJson(outcome) == outcome.body

\* The exception that "await client.get(...)" followed by "response.json()"
\* raises on this outcome, NoExc when a JSON value comes out of it.  The
\* status of the response is not looked at.
FetchExc(outcome) ==
    IF outcome.kind = "error" THEN outcome.exc
    ELSE IF ~outcome.isJson THEN JSONDecodeError
    ELSE NoExc

(***************************************************************************)
(* The ASCII tags of the emoji and of the degree sign.                     *)
(***************************************************************************)
CrossMark == "[X]"

Degree == "[deg]"

(***************************************************************************)
(* Numbers.  Python's float temp_c * 9 / 5 + 32 is kept in tenths, which   *)
(* is exact for an integer temp_c: 9 * temp_c / 5 has one decimal.         *)
(***************************************************************************)
Tenths == 10

\* int(j) of a number or a bool
NumVal(j) == j.n

\* The conversion with its factor upside down: temp_c * 5 / 9 + 32
FahrenheitTenthsInverted(temp_c) == ((temp_c * 5 * Tenths) \div 9) + 32 * Tenths

\* temp_f = (temp_c * 9 / 5) + 32, in tenths of a degree
FahrenheitTenths(temp_c) == ((temp_c * 9 * Tenths) \div 5) + 32 * Tenths

\* f"{x:.1f}" of the float x = tenths / 10
FormatOneDecimal(tenths) ==
    LET a == IF tenths < 0 THEN -tenths ELSE tenths
    IN  (IF tenths < 0 THEN "-" ELSE "") \o ToString(a \div Tenths) \o "."
            \o ToString(a % Tenths)

(***************************************************************************)
(* call_tool, name == "get_weather"                                        *)
(***************************************************************************)
GeocodingUrl(city) == "https://geocoding-api.open-meteo.com/v1/search?name=" \o city

ForecastUrl(lat, lon) ==
    "https://api.open-meteo.com/v1/forecast?latitude=" \o lat \o "&longitude=" \o lon
        \o "&current_weather=true&hourly=temperature_2m,precipitation&timezone=auto"

WeatherText(city, country, current) ==
    LET temp_c == DictGet(current, "temperature", JNum(0))
        temp_f == FahrenheitTenths(NumVal(temp_c))
    IN  "[sun] Weather in " \o city \o ", " \o country \o "\n\n"
            \o "[thermometer] Temperature: " \o PyStr(temp_c) \o Degree \o "C ("
            \o FormatOneDecimal(temp_f) \o Degree \o "F)\n"
            \o "[wind] Wind Speed: " \o PyStr(DictGet(current, "windspeed", JStr("N/A")))
            \o " km/h\n"
            \o "[compass] Wind Direction: "
            \o PyStr(DictGet(current, "winddirection", JStr("N/A"))) \o Degree \o "\n"
            \o "[clock] Time: " \o PyStr(DictGet(current, "time", JStr("N/A")))

CityNotFoundText(city) ==
    CrossMark \o " City '" \o city \o "' not found. Please check the spelling."

\* Lines 187-194: up to the geocoding request.
WeatherStart(arguments) ==
    LET city == PyStr(DictGet(arguments, "city", JStr("New York")))
    IN  Await(GeocodingUrl(city), [NoLocals EXCEPT !.city = city])

\* The test of line 197 as: "results" in geo_data
GeocoderMatchedByKey(geo_data) == HasKey(geo_data, "results")

\* Whether the geocoder's answer sends the handler on to the forecast.
GeocoderMatched(geo_data) == Truthy(DictGetNone(geo_data, "results"))

\* Lines 195-206 and 225-231: from the geocoder's answer to the forecast
\* request or the "not found" result.
WeatherAfterGeocoding(locals, outcome) ==
    IF FetchExc(outcome) # NoExc THEN Raise(FetchExc(outcome))
    ELSE LET geo_data == ResponseJson(outcome) IN
    IF GetExc(geo_data) # NoExc THEN Raise(GetExc(geo_data))
    ELSE IF ~GeocoderMatched(geo_data)
    THEN Return(<<TextContent(CityNotFoundText(locals.city))>>)
    ELSE LET results == Lookup(geo_data, "results") IN
    IF Index0Exc(results) # NoExc THEN Raise(Index0Exc(results))
    ELSE LET result == Index0(results) IN
    IF KeyExc(result, "latitude") # NoExc THEN Raise(KeyExc(result, "latitude"))
    ELSE IF KeyExc(result, "longitude") # NoExc THEN Raise(KeyExc(result, "longitude"))
    ELSE Await(ForecastUrl(PyStr(Lookup(result, "latitude")),
                           PyStr(Lookup(result, "longitude"))),
               [locals EXCEPT !.country = PyStr(DictGet(result, "country", JStr("")))])

\* Whether temp_c * 9 / 5 + 32 is defined
IsArithmetic(j) == j.t \in {"num", "bool"}

\* Lines 207-224: from the forecast's answer to the weather text.
WeatherAfterForecast(locals, outcome) ==
    IF FetchExc(outcome) # NoExc THEN Raise(FetchExc(outcome))
    ELSE LET weather_data == ResponseJson(outcome) IN
    IF GetExc(weather_data) # NoExc THEN Raise(GetExc(weather_data))
    ELSE LET current == DictGet(weather_data, "current_weather", JObj(<<>>)) IN
    IF GetExc(current) # NoExc THEN Raise(GetExc(current))
    ELSE IF ~IsArithmetic(DictGet(current, "temperature", JNum(0)))
    THEN Raise(Exc("TypeError", "unsupported operand type(s)"))
    ELSE Return(<<TextContent(WeatherText(locals.city, locals.country, current))>>)

\* The try block without its except clause: what it raised goes on up.
ExceptExceptionMissing(r, message) == r

\* Lines 232-233 and their like: "except Exception as e" turns what the try
\* block raised into a result with the handler's message.
ExceptException(r, message) ==
    IF r.kind = "raise"
    THEN Return(<<TextContent(CrossMark \o " " \o message \o ": " \o r.exc.msg)>>)
    ELSE r

\* get_weather asking the geocoder once more when its request failed
WeatherResumeRetrying(locals, nrequests, outcome) ==
    IF nrequests = 1 /\ FetchExc(outcome) # NoExc
    THEN Await(GeocodingUrl(locals.city), locals)
    ELSE ExceptException(
             IF nrequests = 1 THEN WeatherAfterGeocoding(locals, outcome)
             ELSE WeatherAfterForecast(locals, outcome),
             "Error getting weather data")

WeatherResume(locals, nrequests, outcome) ==
    ExceptException(
        IF nrequests = 1 THEN WeatherAfterGeocoding(locals, outcome)
        ELSE WeatherAfterForecast(locals, outcome),
        "Error getting weather data")

UnknownToolText(name) == CrossMark \o " Unknown tool: " \o name

(***************************************************************************)
(* call_tool, name == "get_random_joke"                                    *)
(***************************************************************************)
\* Line 255 writes this default between escaped quotes inside the f-string's
\* braces, which Python 3.11 rejects when it compiles the file; the handler is
\* modelled as the expression reads: data.get('joke', <this text>).
DefaultDadJoke ==
    "Why don't scientists trust atoms? Because they make up everything!"

JokeUrl(joke_type) ==
    CASE joke_type = "programming" ->
           "https://official-joke-api.appspot.com/jokes/programming/random"
      [] joke_type = "dad" -> "https://icanhazdadjoke.com/"
      [] OTHER -> "https://official-joke-api.appspot.com/random_joke"

\* Lines 236-261: arguments.get("type", "general").lower() runs before the
\* try block; then the one request of the joke type's branch.
JokeStart(arguments) ==
    LET type == DictGet(arguments, "type", JStr("general"))
    IN  IF ~IsStr(type)
        THEN Raise(Exc("AttributeError", "object has no attribute 'lower'"))
        ELSE Await(JokeUrl(Lower(type.s)), [NoLocals EXCEPT !.joke_type = Lower(type.s)])

\* Lines 264-272: the setup and punchline of the joke
JokeText(joke_type, joke) ==
    IF GetExc(joke) # NoExc THEN Raise(GetExc(joke))
    ELSE Return(<<TextContent(
             "[laugh] " \o Title(joke_type) \o " Joke:\n\n"
                 \o PyStr(DictGet(joke, "setup", JStr(""))) \o "\n\n"
                 \o PyStr(DictGet(joke, "punchline", JStr(""))))>>)

\* Lines 244-272
JokeAfterResponse(locals, outcome) ==
    IF FetchExc(outcome) # NoExc THEN Raise(FetchExc(outcome))
    ELSE LET data == ResponseJson(outcome) IN
    CASE locals.joke_type = "programming" ->
           \* joke = jokes[0] if jokes else {}
           IF ~Truthy(data) THEN JokeText(locals.joke_type, JObj(<<>>))
           ELSE IF Index0Exc(data) # NoExc THEN Raise(Index0Exc(data))
           ELSE JokeText(locals.joke_type, Index0(data))
      [] locals.joke_type = "dad" ->
           IF GetExc(data) # NoExc THEN Raise(GetExc(data))
           ELSE Return(<<TextContent(
                    "[smile] Dad Joke:\n\n"
                        \o PyStr(DictGet(data, "joke", JStr(DefaultDadJoke))))>>)
      [] OTHER -> JokeText(locals.joke_type, data)

JokeResume(locals, nrequests, outcome) ==
    ExceptException(JokeAfterResponse(locals, outcome), "Couldn't fetch a joke")

(***************************************************************************)
(* call_tool, name == "get_random_fact"                                    *)
(***************************************************************************)
FactUrl == "https://uselessfacts.jsph.pl/random.json?language=en"

DefaultFact == "Did you know? Octopuses have three hearts!"

\* Lines 277-281
FactStart(arguments) == Await(FactUrl, NoLocals)

\* Lines 282-291
FactAfterResponse(locals, outcome) ==
    IF FetchExc(outcome) # NoExc THEN Raise(FetchExc(outcome))
    ELSE LET fact_data == ResponseJson(outcome) IN
    IF GetExc(fact_data) # NoExc THEN Raise(GetExc(fact_data))
    ELSE Return(<<TextContent(
             "[nerd] Random Fact:\n\n"
                 \o PyStr(DictGet(fact_data, "text", JStr(DefaultFact))))>>)

FactResume(locals, nrequests, outcome) ==
    ExceptException(FactAfterResponse(locals, outcome), "Couldn't fetch a fact")

(***************************************************************************)
(* Truncation of long text fields.                                         *)
(***************************************************************************)
\* Line 309: the ceiling of the APOD explanation
ExplanationCeiling == 400

\* Line 412: the ceiling of the recipe instructions
InstructionsCeiling == 300

Ellipsis == "..."

\* The cut with >= for >: a text of exactly ceiling characters gets the mark
TruncateAtCeiling(text, ceiling) ==
    IF Len(text) >= ceiling THEN SubSeq(text, 1, ceiling) \o Ellipsis ELSE text

\* Lines 309-310 and 412-413:
\*   if len(text) > ceiling: text = text[:ceiling] + "..."
Truncate(text, ceiling) ==
    IF Len(text) > ceiling THEN SubSeq(text, 1, ceiling) \o Ellipsis ELSE text

\* The exception of len(j), NoExc for a string, list or dict
LenExc(j) ==
    IF j.t \in {"str", "arr", "obj"} THEN NoExc
    ELSE Exc("TypeError", "object has no len()")

\* len(j)
PyLen(j) == IF j.t = "str" THEN Len(j.s) ELSE Len(j.items)

\* The exception of the truncation of the field j, when there is one: only a
\* string can be sliced and have "..." added to it.
TruncateExc(j, ceiling) ==
    IF LenExc(j) # NoExc THEN LenExc(j)
    ELSE IF PyLen(j) > ceiling /\ ~IsStr(j)
    THEN Exc("TypeError", "can only concatenate str")
    ELSE NoExc

\* The field j as the text shows it after the truncation
TruncatedField(j, ceiling) == IF IsStr(j) THEN Truncate(j.s, ceiling) ELSE PyStr(j)

(***************************************************************************)
(* call_tool, name == "get_nasa_apod"                                      *)
(***************************************************************************)
\* Lines 296-303
ApodStart(arguments) ==
    LET date_param == DictGet(arguments, "date", JStr(""))
        url == "https://api.nasa.gov/planetary/apod?api_key=DEMO_KEY"
    IN  Await(IF Truthy(date_param) THEN url \o "&date=" \o PyStr(date_param) ELSE url,
              NoLocals)

\* The exception of: key in j
InExc(j) ==
    IF j.t \in {"obj", "arr", "str"} THEN NoExc
    ELSE Exc("TypeError", "argument is not iterable")

\* key in j, for a dict, a list or a string
In(key, j) ==
    CASE j.t = "obj" -> HasKey(j, key)
      [] j.t = "arr" -> \E i \in 1..Len(j.items) : j.items[i] = JStr(key)
      [] OTHER -> Contains(j.s, key)

ApodText(data) ==
    "[rocket] NASA APOD - " \o PyStr(DictGet(data, "date", JStr("Today"))) \o "\n\n"
        \o "[sparkles] " \o PyStr(DictGet(data, "title", JStr("Amazing Space Image")))
        \o "\n\n"
        \o "[memo] "
        \o TruncatedField(DictGet(data, "explanation", JStr("No description available")),
                          ExplanationCeiling)
        \o "\n\n"
        \o "[link] Image URL: " \o PyStr(DictGet(data, "url", JStr("N/A"))) \o "\n"
        \o "[link] HD URL: " \o PyStr(DictGet(data, "hdurl", JStr("Same as above")))

\* Lines 304-330
ApodAfterResponse(locals, outcome) ==
    IF FetchExc(outcome) # NoExc THEN Raise(FetchExc(outcome))
    ELSE LET data == ResponseJson(outcome) IN
    IF InExc(data) # NoExc THEN Raise(InExc(data))
    ELSE IF GetExc(data) # NoExc THEN Raise(GetExc(data))
    ELSE IF ~In("error", data)
    THEN LET explanation == DictGet(data, "explanation", JStr("No description available"))
         IN  IF TruncateExc(explanation, ExplanationCeiling) # NoExc
             THEN Raise(TruncateExc(explanation, ExplanationCeiling))
             ELSE Return(<<TextContent(ApodText(data))>>)
    ELSE LET error == Lookup(data, "error") IN
         IF GetExc(error) # NoExc THEN Raise(GetExc(error))
         ELSE Return(<<TextContent(
                  CrossMark \o " NASA API Error: "
                      \o PyStr(DictGet(error, "message", JStr("Unknown error"))))>>)

ApodResume(locals, nrequests, outcome) ==
    ExceptException(ApodAfterResponse(locals, outcome), "Error fetching NASA APOD")

(***************************************************************************)
(* Pieces the list-reading handlers share.                                 *)
(***************************************************************************)
RECURSIVE FirstExc(_)
\* The first exception of a sequence of steps' exceptions, NoExc if none
FirstExc(excs) ==
    IF Len(excs) = 0 THEN NoExc
    ELSE IF Head(excs) # NoExc THEN Head(excs)
    ELSE FirstExc(Tail(excs))

\* The exception of j[:n], NoExc for a list or a string
SliceExc(j) ==
    IF j.t \in {"arr", "str"} THEN NoExc
    ELSE Exc("TypeError", "object is not subscriptable")

\* list(j[:n]): the items a loop over the slice visits
SliceItems(j, n) ==
    IF j.t = "arr" THEN SliceTo(j.items, n)
    ELSE LET cut == SliceTo(j.s, n) IN [i \in 1..Len(cut) |-> JStr(Char(cut, i))]

\* The exception of sep.join(items): every item must be a string
JoinExc(items) ==
    IF \E i \in 1..Len(items) : ~IsStr(items[i])
    THEN Exc("TypeError", "sequence item: expected str instance")
    ELSE NoExc

JoinStrs(sep, items) == Join(sep, [i \in 1..Len(items) |-> items[i].s])

(***************************************************************************)
(* call_tool, name == "search_spotify_artist"                              *)
(***************************************************************************)
\* Lines 335-342
ArtistStart(arguments) ==
    LET artist_name == PyStr(DictGet(arguments, "artist_name", JStr("")))
    IN  Await("https://musicbrainz.org/ws/2/artist/?query=" \o artist_name
                  \o "&fmt=json&limit=3",
              [NoLocals EXCEPT !.query = artist_name])

\* Lines 351-355: an optional line of the artist's text
OptionalLine(record, key, label) ==
    IF Truthy(DictGetNone(record, key))
    THEN label \o PyStr(Lookup(record, key)) \o "\n"
    ELSE ""

\* Lines 357-360
LifeSpanExc(artist) ==
    LET span == DictGet(artist, "life-span", JObj(<<>>)) IN GetExc(span)

LifeSpanLine(artist) ==
    LET span == DictGet(artist, "life-span", JObj(<<>>))
    IN  IF Truthy(DictGetNone(span, "begin"))
        THEN "[calendar] Active: " \o PyStr(Lookup(span, "begin")) \o " - "
                 \o PyStr(DictGet(span, "end", JStr("present"))) \o "\n"
        ELSE ""

\* Lines 362-364: the tags shown, artist["tags"][:3]
ShownTags(artist) == SliceItems(Lookup(artist, "tags"), 3)

GenresExc(artist) ==
    IF ~Truthy(DictGetNone(artist, "tags")) THEN NoExc
    ELSE IF SliceExc(Lookup(artist, "tags")) # NoExc THEN SliceExc(Lookup(artist, "tags"))
    ELSE LET tags == ShownTags(artist)
             names == [i \in 1..Len(tags) |-> KeyExc(tags[i], "name")]
         IN  IF FirstExc(names) # NoExc THEN FirstExc(names)
             ELSE JoinExc([i \in 1..Len(tags) |-> Lookup(tags[i], "name")])

GenresLine(artist) ==
    IF ~Truthy(DictGetNone(artist, "tags")) THEN ""
    ELSE LET tags == ShownTags(artist)
         IN  "[score] Genres: "
                 \o JoinStrs(", ", [i \in 1..Len(tags) |-> Lookup(tags[i], "name")])
                 \o "\n"

ArtistText(artist) ==
    "[note] Artist: " \o PyStr(DictGet(artist, "name", JStr("Unknown"))) \o "\n\n"
        \o OptionalLine(artist, "disambiguation", "[label] Type: ")
        \o OptionalLine(artist, "country", "[globe] Country: ")
        \o LifeSpanLine(artist)
        \o GenresLine(artist)
        \o "[star] Score: " \o PyStr(DictGet(artist, "score", JNum(0))) \o "/100"

NoArtistText(artist_name) ==
    "[search] No artist found for '" \o artist_name
        \o "'. Try a different name or spelling."

\* Lines 343-375
ArtistAfterResponse(locals, outcome) ==
    IF FetchExc(outcome) # NoExc THEN Raise(FetchExc(outcome))
    ELSE LET data == ResponseJson(outcome) IN
    IF GetExc(data) # NoExc THEN Raise(GetExc(data))
    ELSE IF ~Truthy(DictGetNone(data, "artists"))
    THEN Return(<<TextContent(NoArtistText(locals.query))>>)
    ELSE LET artists == Lookup(data, "artists") IN
    IF Index0Exc(artists) # NoExc THEN Raise(Index0Exc(artists))
    ELSE LET artist == Index0(artists) IN
    IF GetExc(artist) # NoExc THEN Raise(GetExc(artist))
    ELSE IF LifeSpanExc(artist) # NoExc THEN Raise(LifeSpanExc(artist))
    ELSE IF GenresExc(artist) # NoExc THEN Raise(GenresExc(artist))
    ELSE Return(<<TextContent(ArtistText(artist))>>)

ArtistResume(locals, nrequests, outcome) ==
    ExceptException(ArtistAfterResponse(locals, outcome), "Error searching for artist")

(***************************************************************************)
(* call_tool, name == "search_recipes"                                     *)
(***************************************************************************)
\* Line 396: range(1, 21)
IngredientSlots == 20

\* Line 409: ingredients[:10]
IngredientsShown == 10

\* Lines 380-388
RecipeStart(arguments) ==
    LET query == PyStr(DictGet(arguments, "query", JStr("")))
    IN  Await("https://www.themealdb.com/api/json/v1/1/search.php?s=" \o query,
              [NoLocals EXCEPT !.query = query])

Ingredient(meal, i) == DictGetNone(meal, "strIngredient" \o ToString(i))

Measure(meal, i) == DictGetNone(meal, "strMeasure" \o ToString(i))

StripExc(j) ==
    IF IsStr(j) THEN NoExc ELSE Exc("AttributeError", "object has no attribute 'strip'")

\* Lines 397-402: the exception of the loop's pass i
IngredientExc(meal, i) ==
    IF ~Truthy(Ingredient(meal, i)) THEN NoExc
    ELSE IF StripExc(Ingredient(meal, i)) # NoExc THEN StripExc(Ingredient(meal, i))
    ELSE IF Strip(Ingredient(meal, i).s) = "" THEN NoExc
    ELSE IF Truthy(Measure(meal, i)) THEN StripExc(Measure(meal, i))
    ELSE NoExc

\* Line 399: whether pass i appends a line
HasIngredient(meal, i) ==
    Truthy(Ingredient(meal, i)) /\ Strip(Ingredient(meal, i).s) # ""

\* Lines 400-401
IngredientLine(meal, i) ==
    LET m == IF Truthy(Measure(meal, i)) THEN Strip(Measure(meal, i).s) ELSE ""
    IN  Strip("[bullet] " \o m \o " " \o Ingredient(meal, i).s)

RECURSIVE IngredientLines(_, _)
\* The list ingredients after the passes 1..n
IngredientLines(meal, n) ==
    IF n = 0 THEN <<>>
    ELSE IF HasIngredient(meal, n)
    THEN Append(IngredientLines(meal, n - 1), IngredientLine(meal, n))
    ELSE IngredientLines(meal, n - 1)

RecipeText(meal) ==
    LET ingredients == IngredientLines(meal, IngredientSlots)
    IN  "[cooking] Recipe: " \o PyStr(DictGet(meal, "strMeal", JStr("Delicious Dish")))
            \o "\n\n"
            \o "[label] Category: " \o PyStr(DictGet(meal, "strCategory", JStr("N/A")))
            \o "\n"
            \o "[globe] Origin: " \o PyStr(DictGet(meal, "strArea", JStr("International")))
            \o "\n\n"
            \o (IF Len(ingredients) > 0
                THEN "[clipboard] Ingredients:\n"
                         \o Join("\n", SliceTo(ingredients, IngredientsShown)) \o "\n\n"
                ELSE "")
            \o "[cook] Instructions:\n"
            \o TruncatedField(DictGet(meal, "strInstructions",
                                      JStr("Instructions not available")),
                              InstructionsCeiling)
            \o "\n\n"
            \o OptionalLine(meal, "strYoutube", "[tv] Video: ")
            \o (IF Truthy(DictGetNone(meal, "strMealThumb"))
                THEN "[picture] Image: " \o PyStr(Lookup(meal, "strMealThumb"))
                ELSE "")

NoRecipesText(query) ==
    "[search] No recipes found for '" \o query \o "'. "
        \o "Try searching for common dishes like 'pasta', 'chicken', 'cake', etc."

\* Lines 389-432
RecipeAfterResponse(locals, outcome) ==
    IF FetchExc(outcome) # NoExc THEN Raise(FetchExc(outcome))
    ELSE LET data == ResponseJson(outcome) IN
    IF GetExc(data) # NoExc THEN Raise(GetExc(data))
    ELSE IF ~Truthy(DictGetNone(data, "meals"))
    THEN Return(<<TextContent(NoRecipesText(locals.query))>>)
    ELSE LET meals == Lookup(data, "meals") IN
    IF Index0Exc(meals) # NoExc THEN Raise(Index0Exc(meals))
    ELSE LET meal == Index0(meals) IN
    IF GetExc(meal) # NoExc THEN Raise(GetExc(meal))
    ELSE LET loop == FirstExc([i \in 1..IngredientSlots |-> IngredientExc(meal, i)])
             instructions == DictGet(meal, "strInstructions",
                                     JStr("Instructions not available"))
         IN
    IF loop # NoExc THEN Raise(loop)
    ELSE IF TruncateExc(instructions, InstructionsCeiling) # NoExc
    THEN Raise(TruncateExc(instructions, InstructionsCeiling))
    ELSE Return(<<TextContent(RecipeText(meal))>>)

RecipeResume(locals, nrequests, outcome) ==
    ExceptException(RecipeAfterResponse(locals, outcome), "Error searching recipes")

(***************************************************************************)
(* call_tool, name == "search_books"                                       *)
(***************************************************************************)
\* Line 438: arguments.get("limit", 5)
DefaultLimit == 5

\* Line 438: min(..., 10)
MaxResults == 10

\* Line 438: limit = min(arguments.get("limit", 5), 10)
ClampLimit(limit) == Min(limit, MaxResults)

BooksUrl(query, limit) ==
    "https://openlibrary.org/search.json?q=" \o query \o "&limit=" \o ToString(limit)

\* Lines 437-444: the limit is worked out before the try block.
BooksStart(arguments) ==
    LET query == PyStr(DictGet(arguments, "query", JStr("")))
        limit == DictGet(arguments, "limit", JNum(DefaultLimit))
    IN  IF ~IsArithmetic(limit)
        THEN Raise(Exc("TypeError", "'<' not supported between instances"))
        ELSE Await(BooksUrl(query, ClampLimit(NumVal(limit))),
                   [NoLocals EXCEPT !.query = query,
                                    !.limit = ClampLimit(NumVal(limit))])

\* Line 452
Authors(book) == DictGet(book, "author_name", JArr(<<JStr("Unknown Author")>>))

\* Lines 451-464: the exception of the loop's pass over book
BookExc(book) ==
    IF GetExc(book) # NoExc THEN GetExc(book)
    ELSE IF SliceExc(Authors(book)) # NoExc THEN SliceExc(Authors(book))
    ELSE IF JoinExc(SliceItems(Authors(book), 2)) # NoExc
    THEN JoinExc(SliceItems(Authors(book), 2))
    ELSE IF Truthy(DictGetNone(book, "isbn")) /\ Index0Exc(Lookup(book, "isbn")) # NoExc
    THEN Index0Exc(Lookup(book, "isbn"))
    ELSE IF ~Truthy(DictGetNone(book, "subject")) THEN NoExc
    ELSE IF SliceExc(Lookup(book, "subject")) # NoExc
    THEN SliceExc(Lookup(book, "subject"))
    ELSE JoinExc(SliceItems(Lookup(book, "subject"), 3))

\* Lines 451-466: the lines of entry number i
BookEntry(i, book) ==
    ToString(i) \o ". [open-book] " \o PyStr(DictGet(book, "title", JStr("Unknown Title")))
        \o "\n"
        \o "   [pen] By: " \o JoinStrs(", ", SliceItems(Authors(book), 2)) \o "\n"
        \o "   [calendar] Published: "
        \o PyStr(DictGet(book, "first_publish_year", JStr("Unknown"))) \o "\n"
        \o (IF Truthy(DictGetNone(book, "isbn"))
            THEN "   [page] ISBN: " \o PyStr(Index0(Lookup(book, "isbn"))) \o "\n"
            ELSE "")
        \o (IF Truthy(DictGetNone(book, "subject"))
            THEN "   [label] Subjects: "
                     \o JoinStrs(", ", SliceItems(Lookup(book, "subject"), 3)) \o "\n"
            ELSE "")
        \o "\n"

\* Line 450: the books the loop lists, data["docs"][:limit]
ListedBooks(docs, limit) == SliceItems(docs, limit)

BooksText(query, docs, limit) ==
    LET listed == ListedBooks(docs, limit)
    IN  Strip("[books] Found " \o ToString(PyLen(docs)) \o " books for '" \o query
                  \o "':\n\n"
                  \o Join("", [i \in 1..Len(listed) |-> BookEntry(i, listed[i])]))

NoBooksText(query) ==
    "[books] No books found for '" \o query
        \o "'. Try different keywords or author names."

\* Lines 445-475
BooksAfterResponse(locals, outcome) ==
    IF FetchExc(outcome) # NoExc THEN Raise(FetchExc(outcome))
    ELSE LET data == ResponseJson(outcome) IN
    IF GetExc(data) # NoExc THEN Raise(GetExc(data))
    ELSE IF ~Truthy(DictGetNone(data, "docs"))
    THEN Return(<<TextContent(NoBooksText(locals.query))>>)
    ELSE LET docs == Lookup(data, "docs") IN
    IF LenExc(docs) # NoExc THEN Raise(LenExc(docs))
    ELSE IF SliceExc(docs) # NoExc THEN Raise(SliceExc(docs))
    ELSE LET listed == ListedBooks(docs, locals.limit)
             loop == FirstExc([i \in 1..Len(listed) |-> BookExc(listed[i])])
         IN
    IF loop # NoExc THEN Raise(loop)
    ELSE Return(<<TextContent(BooksText(locals.query, docs, locals.limit))>>)

BooksResume(locals, nrequests, outcome) ==
    ExceptException(BooksAfterResponse(locals, outcome), "Error searching books")

(***************************************************************************)
(* json.dumps(value, indent=2) and json.loads(text), character by          *)
(* character.  Numbers are integers here.                                  *)
(***************************************************************************)
\* Line 55: indent=2
IndentWidth == 2

RECURSIVE Spaces(_)
Spaces(n) == IF n <= 0 THEN "" ELSE Spaces(n - 1) \o " "

Quote == "\""

Backslash == "\\"

\* A string written out between quotes as it is
EscapeCharNone(c) == c

\* The escape sequence of a character inside a JSON string
EscapeChar(c) ==
    CASE c = Quote -> Backslash \o Quote
      [] c = Backslash -> Backslash \o Backslash
      [] c = "\n" -> Backslash \o "n"
      [] c = "\t" -> Backslash \o "t"
      [] c = "\r" -> Backslash \o "r"
      [] OTHER -> c

RECURSIVE EscapeString(_)
EscapeString(s) ==
    IF s = "" THEN ""
    ELSE EscapeString(SubSeq(s, 1, Len(s) - 1)) \o EscapeChar(Char(s, Len(s)))

EncodeString(s) == Quote \o EscapeString(s) \o Quote

RECURSIVE DumpsAt(_, _)
\* The text of value j at nesting depth level
DumpsAt(j, level) ==
    LET inner == "\n" \o Spaces(IndentWidth * (level + 1))
        outer == "\n" \o Spaces(IndentWidth * level)
    IN  CASE j.t = "null" -> "null"
          [] j.t = "bool" -> IF j.n = 1 THEN "true" ELSE "false"
          [] j.t = "num" -> ToString(j.n)
          [] j.t = "str" -> EncodeString(j.s)
          [] j.t = "arr" ->
               IF Len(j.items) = 0 THEN "[]"
               ELSE "[" \o inner
                        \o Join("," \o inner,
                                [i \in 1..Len(j.items) |-> DumpsAt(j.items[i], level + 1)])
                        \o outer \o "]"
          [] OTHER ->
               IF Len(j.items) = 0 THEN "{}"
               ELSE "{" \o inner
                        \o Join("," \o inner,
                                [i \in 1..Len(j.items) |->
                                    EncodeString(j.keys[i]) \o ": "
                                        \o DumpsAt(j.items[i], level + 1)])
                        \o outer \o "}"

\* json.dumps(j, indent=2)
Dumps(j) == DumpsAt(j, 0)

Parsed(val, next) == [ok |-> TRUE, val |-> val, next |-> next]

ParseFail == [ok |-> FALSE, val |-> JNull, next |-> 0]

RECURSIVE SkipSpace(_, _)
\* The first position from i on that holds no white space
SkipSpace(s, i) ==
    IF i <= Len(s) /\ IsSpace(Char(s, i)) THEN SkipSpace(s, i + 1) ELSE i

DigitChars == "0123456789"

IsDigit(c) == \E d \in 1..Len(DigitChars) : Char(DigitChars, d) = c

DigitValue(c) == (CHOOSE d \in 1..Len(DigitChars) : Char(DigitChars, d) = c) - 1

\* The character an escape sequence \c stands for; "" if there is none
Unescape(c) ==
    CASE c = Quote -> Quote
      [] c = Backslash -> Backslash
      [] c = "/" -> "/"
      [] c = "n" -> "\n"
      [] c = "t" -> "\t"
      [] c = "r" -> "\r"
      [] OTHER -> ""

RECURSIVE ParseString(_, _, _)
\* The string whose opening quote is passed, from position i, acc read so far
ParseString(s, i, acc) ==
    IF i > Len(s) THEN ParseFail
    ELSE IF Char(s, i) = Quote THEN Parsed(JStr(acc), i + 1)
    ELSE IF Char(s, i) = Backslash
    THEN IF i + 1 > Len(s) \/ Unescape(Char(s, i + 1)) = "" THEN ParseFail
         ELSE ParseString(s, i + 2, acc \o Unescape(Char(s, i + 1)))
    ELSE IF Char(s, i) \in {"\n", "\t", "\r"} THEN ParseFail
    ELSE ParseString(s, i + 1, acc \o Char(s, i))

RECURSIVE ParseDigits(_, _, _)
ParseDigits(s, i, acc) ==
    IF i <= Len(s) /\ IsDigit(Char(s, i))
    THEN ParseDigits(s, i + 1, acc * 10 + DigitValue(Char(s, i)))
    ELSE Parsed(JNum(acc), i)

ParseNumber(s, i) ==
    IF Char(s, i) = "-"
    THEN IF i + 1 <= Len(s) /\ IsDigit(Char(s, i + 1))
         THEN LET r == ParseDigits(s, i + 1, 0) IN Parsed(JNum(-r.val.n), r.next)
         ELSE ParseFail
    ELSE ParseDigits(s, i, 0)

ParseLiteral(s, i, word, val) ==
    IF SubSeq(s, i, Min(Len(s), i + Len(word) - 1)) = word
    THEN Parsed(val, i + Len(word))
    ELSE ParseFail

\* d[key] = val on the pairs of a dict: a key already there keeps its place
SetKey(pairs, key, val) ==
    IF \E n \in 1..Len(pairs) : pairs[n].k = key
    THEN [n \in 1..Len(pairs) |-> IF pairs[n].k = key THEN KV(key, val) ELSE pairs[n]]
    ELSE Append(pairs, KV(key, val))

RECURSIVE ParseValue(_, _)
RECURSIVE ParseItems(_, _, _)
RECURSIVE ParseMembers(_, _, _)

\* The value that starts at position i
ParseValue(s, i) ==
    IF i > Len(s) THEN ParseFail
    ELSE LET c == Char(s, i) IN
         CASE c = "{" ->
                IF SkipSpace(s, i + 1) <= Len(s) /\ Char(s, SkipSpace(s, i + 1)) = "}"
                THEN Parsed(JObj(<<>>), SkipSpace(s, i + 1) + 1)
                ELSE ParseMembers(s, SkipSpace(s, i + 1), <<>>)
           [] c = "[" ->
                IF SkipSpace(s, i + 1) <= Len(s) /\ Char(s, SkipSpace(s, i + 1)) = "]"
                THEN Parsed(JArr(<<>>), SkipSpace(s, i + 1) + 1)
                ELSE ParseItems(s, SkipSpace(s, i + 1), <<>>)
           [] c = Quote -> ParseString(s, i + 1, "")
           [] c = "t" -> ParseLiteral(s, i, "true", JBool(TRUE))
           [] c = "f" -> ParseLiteral(s, i, "false", JBool(FALSE))
           [] c = "n" -> ParseLiteral(s, i, "null", JNull)
           [] c = "-" \/ IsDigit(c) -> ParseNumber(s, i)
           [] OTHER -> ParseFail

\* The items of a list from position i, acc read so far
ParseItems(s, i, acc) ==
    LET item == ParseValue(s, i) IN
    IF ~item.ok THEN ParseFail
    ELSE LET after == SkipSpace(s, item.next) IN
         IF after > Len(s) THEN ParseFail
         ELSE IF Char(s, after) = "]" THEN Parsed(JArr(Append(acc, item.val)), after + 1)
         ELSE IF Char(s, after) = ","
         THEN ParseItems(s, SkipSpace(s, after + 1), Append(acc, item.val))
         ELSE ParseFail

\* The members of an object from position i, acc read so far
ParseMembers(s, i, acc) ==
    IF i > Len(s) \/ Char(s, i) # Quote THEN ParseFail
    ELSE LET key == ParseString(s, i + 1, "") IN
    IF ~key.ok THEN ParseFail
    ELSE LET colon == SkipSpace(s, key.next) IN
    IF colon > Len(s) \/ Char(s, colon) # ":" THEN ParseFail
    ELSE LET member == ParseValue(s, SkipSpace(s, colon + 1)) IN
    IF ~member.ok THEN ParseFail
    ELSE LET after == SkipSpace(s, member.next)
             pairs == SetKey(acc, key.val.s, member.val)
         IN
    IF after > Len(s) THEN ParseFail
    ELSE IF Char(s, after) = "}" THEN Parsed(JObj(pairs), after + 1)
    ELSE IF Char(s, after) = "," THEN ParseMembers(s, SkipSpace(s, after + 1), pairs)
    ELSE ParseFail

\* json.loads(text): ok and the value, or not ok where it raises
Loads(text) ==
    LET r == ParseValue(text, SkipSpace(text, 1))
    IN  IF r.ok /\ SkipSpace(text, r.next) > Len(text) THEN r ELSE ParseFail

(***************************************************************************)
(* read_resource                                                           *)
(***************************************************************************)
\* Lines 21-43: the URIs list_resources lists
ListedResources == {"weather://current", "nasa://apod", "jokes://random"}

ResourceUrl(uri) ==
    CASE uri = "weather://current" ->
           "https://api.open-meteo.com/v1/forecast?latitude=40.7128&longitude=-74.0060&current_weather=true"
      [] uri = "nasa://apod" -> "https://api.nasa.gov/planetary/apod?api_key=DEMO_KEY"
      [] OTHER -> "https://official-joke-api.appspot.com/random_joke"

\* Lines 49-71: up to the request, or to the fallback
ReadResourceStart(uri) ==
    IF uri \in ListedResources THEN Await(ResourceUrl(uri), NoLocals)
    ELSE Return("Resource not found")

\* Lines 55, 62, 69: return json.dumps(response.json(), indent=2), with no
\* try block around the request or the decoding
ReadResourceResume(outcome) ==
    IF FetchExc(outcome) # NoExc THEN Raise(FetchExc(outcome))
    ELSE Return(Dumps(ResponseJson(outcome)))

(***************************************************************************)
(* Dispatch: the if/elif chain of call_tool.                               *)
(***************************************************************************)
\* Lines 74-179: the tools list_tools lists
ToolNames ==
    {"get_weather", "get_random_joke", "get_random_fact", "get_nasa_apod",
     "search_spotify_artist", "search_recipes", "search_books"}

\* Line 479: the fallback of call_tool
UnknownTool(name) == Return(<<TextContent(UnknownToolText(name))>>)

\* From the entry of call_tool to its first await, or to its return.
ToolStart(name, arguments) ==
    CASE name = "get_weather" -> WeatherStart(arguments)
      [] name = "get_random_joke" -> JokeStart(arguments)
      [] name = "get_random_fact" -> FactStart(arguments)
      [] name = "get_nasa_apod" -> ApodStart(arguments)
      [] name = "search_spotify_artist" -> ArtistStart(arguments)
      [] name = "search_recipes" -> RecipeStart(arguments)
      [] name = "search_books" -> BooksStart(arguments)
      [] OTHER -> UnknownTool(name)

\* From the answer to the handler's request number nrequests to its next
\* await, or to its return.
ToolResume(name, locals, nrequests, outcome) ==
    CASE name = "get_weather" -> WeatherResume(locals, nrequests, outcome)
      [] name = "get_random_joke" -> JokeResume(locals, nrequests, outcome)
      [] name = "get_random_fact" -> FactResume(locals, nrequests, outcome)
      [] name = "get_nasa_apod" -> ApodResume(locals, nrequests, outcome)
      [] name = "search_spotify_artist" -> ArtistResume(locals, nrequests, outcome)
      [] name = "search_recipes" -> RecipeResume(locals, nrequests, outcome)
      [] name = "search_books" -> BooksResume(locals, nrequests, outcome)
      [] OTHER -> UnknownTool(name)

(***************************************************************************)
(* The environment: what the caller passes and what the upstreams answer.  *)
(***************************************************************************)
\* The largest |temperature| a forecast carries
MaxTemp == 20

\* How far past its ceiling an upstream text goes
MaxOver == 2

\* The most books an upstream "docs" list carries
MaxDocs == 12

\* The largest limit a caller asks for
MaxLimit == 15

\* The limits asked for go down to -MaxBelow
MaxBelow == 2

Statuses == {200, 404, 500}

ErrorBody == JObj(<<KV("error", JBool(TRUE)), KV("reason", JStr("Internal error"))>>)

RECURSIVE Repeat(_, _)
\* The string s, n times over
Repeat(s, n) ==
    IF n = 0 THEN ""
    ELSE IF n % 2 = 0 THEN LET half == Repeat(s, n \div 2) IN half \o half
    ELSE Repeat(s, n - 1) \o s

\* An upstream text of n characters
LongText(n) ==
    Repeat(DigitChars, n \div Len(DigitChars)) \o SubSeq(DigitChars, 1, n % Len(DigitChars))

\* The lengths of the upstream texts of a field with this ceiling
TextLengths(ceiling) == {0, 1} \cup ((ceiling - 1)..(ceiling + MaxOver))

GeoMatch(fields) == JObj(<<KV("results", JArr(<<JObj(fields)>>))>>)

GeocoderBodies ==
    { JObj(<<>>),
      JObj(<<KV("results", JArr(<<>>))>>),
      JObj(<<KV("results", JNull)>>),
      ErrorBody,
      JArr(<<>>),
      GeoMatch(<<KV("latitude", JNum(48)), KV("longitude", JNum(2)),
                 KV("country", JStr("France"))>>),
      GeoMatch(<<KV("latitude", JNum(48)), KV("longitude", JNum(2))>>),
      GeoMatch(<<KV("country", JStr("France"))>>) }

Current(temp) ==
    JObj(<<KV("current_weather",
              JObj(<<KV("temperature", temp), KV("windspeed", JNum(10)),
                     KV("winddirection", JNum(180)),
                     KV("time", JStr("2024-01-01T12:00"))>>))>>)

ForecastBodies ==
    { Current(JNum(t)) : t \in (-MaxTemp)..MaxTemp }
        \cup { Current(JStr("15")), Current(JNull),
               JObj(<<>>),
               JObj(<<KV("current_weather", JObj(<<>>))>>),
               JObj(<<KV("current_weather", JNull)>>),
               ErrorBody,
               JNull }

AJoke ==
    JObj(<<KV("type", JStr("general")), KV("setup", JStr("Why did the chicken cross?")),
           KV("punchline", JStr("To get to the other side.")), KV("id", JNum(7))>>)

JokeBodies ==
    { AJoke, JArr(<<AJoke>>), JArr(<<>>), JObj(<<>>), JArr(<<JStr("ha")>>),
      JObj(<<KV("id", JStr("R7UfaahVfFd")), KV("joke", JStr("I'm tired of following my dreams.")),
             KV("status", JNum(200))>>),
      ErrorBody, JNull, JStr("Too many requests") }

FactBodies ==
    { JObj(<<KV("id", JStr("a1")), KV("text", JStr("Bananas are berries."))>>),
      JObj(<<KV("text", JNull)>>), JObj(<<>>), ErrorBody, JArr(<<>>), JNull }

Apod(explanation) ==
    JObj(<<KV("date", JStr("2024-01-01")), KV("title", JStr("Orion")),
           KV("explanation", explanation),
           KV("url", JStr("https://apod.nasa.gov/image/orion.jpg"))>>)

ApodBodies ==
    { Apod(JStr(LongText(n))) : n \in TextLengths(ExplanationCeiling) }
        \cup { Apod(JNull), Apod(JArr(<<JStr("a")>>)),
               JObj(<<>>),
               JObj(<<KV("error", JObj(<<KV("code", JStr("OVER_RATE_LIMIT")),
                                         KV("message", JStr("Rate limit exceeded"))>>))>>),
               JObj(<<KV("error", JStr("Internal error"))>>),
               JArr(<<JStr("error")>>), JStr("server error"), JNum(0) }

Artists(fields) == JObj(<<KV("artists", JArr(<<JObj(fields)>>))>>)

Tag(n) == JObj(<<KV("count", JNum(1)), KV("name", JStr(n))>>)

ArtistBodies ==
    { JObj(<<>>), JObj(<<KV("artists", JArr(<<>>))>>), ErrorBody, JNull,
      Artists(<<>>),
      Artists(<<KV("name", JStr("Queen")), KV("disambiguation", JStr("UK rock group")),
                KV("country", JStr("GB")), KV("score", JNum(100)),
                KV("life-span", JObj(<<KV("begin", JStr("1970")), KV("ended", JNull)>>)),
                KV("tags", JArr(<<Tag("rock"), Tag("glam"), Tag("pop"), Tag("uk")>>))>>),
      Artists(<<KV("name", JStr("Queen")), KV("life-span", JNull)>>),
      Artists(<<KV("name", JStr("Queen")),
                KV("tags", JArr(<<JObj(<<KV("count", JNum(1))>>)>>))>>),
      Artists(<<KV("name", JStr("Queen")),
                KV("tags", JArr(<<JObj(<<KV("name", JNull)>>)>>))>>),
      JObj(<<KV("artists", JArr(<<JStr("Queen")>>))>>) }

Meals(fields) == JObj(<<KV("meals", JArr(<<JObj(fields)>>))>>)

MealFields ==
    <<KV("strMeal", JStr("Carbonara")), KV("strCategory", JStr("Pasta")),
      KV("strArea", JStr("Italian")),
      KV("strIngredient1", JStr("Spaghetti")), KV("strMeasure1", JStr("320g ")),
      KV("strIngredient2", JStr("Egg")), KV("strMeasure2", JNull),
      KV("strIngredient3", JStr(" ")), KV("strMeasure3", JStr(" ")),
      KV("strIngredient4", JStr("")), KV("strIngredient5", JNull),
      KV("strYoutube", JStr("https://youtu.be/x")),
      KV("strMealThumb", JStr("https://www.themealdb.com/x.jpg"))>>

RecipeBodies ==
    { Meals(Append(MealFields, KV("strInstructions", JStr(LongText(n)))))
        : n \in TextLengths(InstructionsCeiling) }
        \cup { Meals(MealFields), Meals(<<>>),
               Meals(<<KV("strInstructions", JNull)>>),
               Meals(<<KV("strIngredient1", JNum(3))>>),
               Meals(<<KV("strIngredient1", JStr("Egg")), KV("strMeasure1", JNum(2))>>),
               JObj(<<KV("meals", JNull)>>), JObj(<<KV("meals", JStr("none"))>>),
               JObj(<<>>), ErrorBody, JNull }

Book(i) ==
    JObj(<<KV("title", JStr("Book " \o ToString(i))),
           KV("author_name", JArr(<<JStr("A. Author"), JStr("B. Writer"), JStr("C. Third")>>)),
           KV("first_publish_year", JNum(1960 + i)),
           KV("isbn", JArr(<<JStr("978" \o ToString(i)), JStr("979")>>)),
           KV("subject", JArr(<<JStr("Fiction"), JStr("Desert"), JStr("Space"),
                                JStr("Politics")>>))>>)

Docs(books) == JObj(<<KV("docs", JArr(books))>>)

BooksBodies ==
    { Docs([i \in 1..n |-> Book(i)]) : n \in 0..MaxDocs }
        \cup { Docs(<<JObj(<<>>)>>),
               Docs(<<JObj(<<KV("title", JStr("Dune")), KV("author_name", JNull)>>)>>),
               Docs(<<JObj(<<KV("title", JStr("Dune")), KV("isbn", JNum(978))>>)>>),
               Docs(<<JObj(<<KV("title", JStr("Dune")),
                             KV("subject", JArr(<<JNum(1)>>))>>)>>),
               Docs(<<JStr("Dune")>>),
               JObj(<<KV("docs", JStr("none"))>>), JObj(<<KV("docs", JNum(3))>>),
               JObj(<<>>), ErrorBody, JNull }

\* The schema-valid argument mappings of each tool, a missing optional or
\* required argument among them
ToolArguments(name) ==
    CASE name = "get_weather" ->
           { JObj(<<KV("city", JStr("Paris"))>>), JObj(<<KV("city", JStr("Atlantis"))>>),
             JObj(<<>>) }
      [] name = "get_random_joke" ->
           { JObj(<<>>) } \cup
           { JObj(<<KV("type", JStr(t))>>) : t \in {"programming", "Dad", "knock-knock"} }
      [] name = "get_nasa_apod" -> { JObj(<<>>), JObj(<<KV("date", JStr("2024-01-01"))>>) }
      [] name = "search_spotify_artist" ->
           { JObj(<<KV("artist_name", JStr("Queen"))>>), JObj(<<>>) }
      [] name = "search_recipes" ->
           { JObj(<<KV("query", JStr("pasta"))>>),
             JObj(<<KV("query", JStr("pasta")), KV("diet", JStr("vegan"))>>) }
      [] name = "search_books" ->
           { JObj(<<KV("query", JStr("dune"))>>) } \cup
           { JObj(<<KV("query", JStr("dune")), KV("limit", JNum(n))>>)
               : n \in (-MaxBelow)..MaxLimit }
      [] OTHER -> { JObj(<<>>) }

\* The JSON bodies the upstream of the handler's request number nrequests
\* may answer with.
ToolBodies(name, nrequests) ==
    CASE name = "get_weather" -> IF nrequests = 1 THEN GeocoderBodies ELSE ForecastBodies
      [] name = "get_random_joke" -> JokeBodies
      [] name = "get_random_fact" -> FactBodies
      [] name = "get_nasa_apod" -> ApodBodies
      [] name = "search_spotify_artist" -> ArtistBodies
      [] name = "search_recipes" -> RecipeBodies
      [] name = "search_books" -> BooksBodies
      [] OTHER -> { JNull }

\* The JSON bodies the upstream of a resource may answer with
ResourceBodies ==
    { JNull, JBool(TRUE), JBool(FALSE), JNum(0), JNum(-74), JStr(""),
      JStr("say \"hi\"\n\tback\\slash"), JArr(<<>>), JObj(<<>>),
      JArr(<<JNum(1), JArr(<<JNull, JStr("[x, y]")>>), JObj(<<>>)>>),
      AJoke, ErrorBody, Current(JNum(15)),
      JObj(<<KV("a b", JObj(<<KV("k\"ey", JArr(<<JNum(12), JObj(<<KV("z", JNull)>>)>>)),
                              KV("", JStr("{\"a\": 1}"))>>)),
             KV("list", JArr(<<JStr("true"), JBool(TRUE), JNum(-1)>>))>>) }

\* The URIs a host asks for: the listed ones and one that is not
ResourceUris == ListedResources \cup {"quotes://random"}

(***************************************************************************)
(* State.                                                                  *)
(***************************************************************************)
VARIABLES
    pc,         \* "idle", "await" (suspended in client.get), "returned", "raised"
    op,         \* the entry point running: "call_tool", "read_resource" or ""
    name,       \* the tool name (or the resource URI) of the invocation
    arguments,  \* its argument mapping
    locals,     \* the handler's local variables kept across an await
    requests,   \* the URLs of the GET requests the invocation has issued
    outcomes,   \* what each finished request came back with
    waited,     \* time units the pending request has been waited for
    result,     \* the value returned
    raised      \* the exception that left the handler

vars == <<pc, op, name, arguments, locals, requests, outcomes, waited, result, raised>>

\* httpx.AsyncClient() is built without a timeout argument, so httpx's
\* default of 5 seconds bounds every wait of client.get.
DefaultTimeout == 5

Init ==
    /\ pc = "idle"
    /\ op = ""
    /\ name = ""
    /\ arguments = JObj(<<>>)
    /\ locals = NoLocals
    /\ requests = <<>>
    /\ outcomes = <<>>
    /\ waited = 0
    /\ result = <<>>
    /\ raised = NoExc

\* The handler goes on to where the stretch r of its code ends.
Proceed(r) ==
    /\ pc' = CASE r.kind = "await" -> "await"
               [] r.kind = "return" -> "returned"
               [] OTHER -> "raised"
    /\ requests' = IF r.kind = "await" THEN Append(requests, r.url) ELSE requests
    /\ locals' = IF r.kind = "await" THEN r.locals ELSE locals
    /\ waited' = 0
    /\ result' = IF r.kind = "return" THEN r.value ELSE result
    /\ raised' = IF r.kind = "raise" THEN r.exc ELSE raised

\* The host calls call_tool(name, arguments).
CallTool ==
    /\ pc = "idle"
    /\ \E n \in ToolNames \cup {"get_horoscope"} : \E a \in ToolArguments(n) :
         /\ op' = "call_tool"
         /\ name' = n
         /\ arguments' = a
         /\ outcomes' = outcomes
         /\ Proceed(ToolStart(n, a))

\* The host calls read_resource(uri).
ReadResource ==
    /\ pc = "idle"
    /\ \E uri \in ResourceUris :
         /\ op' = "read_resource"
         /\ name' = uri
         /\ arguments' = arguments
         /\ outcomes' = outcomes
         /\ Proceed(ReadResourceStart(uri))

\* client.get(...) comes back with outcome and the handler runs on.
Resume(outcome) ==
    /\ outcomes' = Append(outcomes, outcome)
    /\ Proceed(IF op = "read_resource" THEN ReadResourceResume(outcome)
               ELSE ToolResume(name, locals, Len(requests), outcome))
    /\ UNCHANGED <<op, name, arguments>>

\* The JSON bodies the upstream of the pending request may answer with
PendingBodies ==
    IF op = "read_resource" THEN ResourceBodies ELSE ToolBodies(name, Len(requests))

\* The upstream answers the pending request.
Respond ==
    /\ pc = "await"
    /\ waited < DefaultTimeout
    /\ \E status \in Statuses :
         \/ \E body \in PendingBodies :
              Resume(Response(status, TRUE, body))
         \/ Resume(Response(status, FALSE, JNull))

\* The connection fails.
NetworkError ==
    /\ pc = "await"
    /\ waited < DefaultTimeout
    /\ Resume(ClientError(Exc("ConnectError", "All connection attempts failed")))

\* A time unit passes with the request pending.
Tick ==
    /\ pc = "await"
    /\ waited < DefaultTimeout
    /\ waited' = waited + 1
    /\ UNCHANGED <<pc, op, name, arguments, locals, requests, outcomes, result, raised>>

\* A client built with timeout=None
TimeoutNever(w) == FALSE

\* Whether httpx gives up on the pending request.
TimeoutExpired(w) == w >= DefaultTimeout

\* httpx raises ReadTimeout out of client.get.
Timeout ==
    /\ pc = "await"
    /\ TimeoutExpired(waited)
    /\ Resume(ClientError(Exc("ReadTimeout", "")))

\* The invocation is over; the server is ready for the next one.
Finish ==
    /\ pc \in {"returned", "raised"}
    /\ pc' = "idle"
    /\ op' = ""
    /\ name' = ""
    /\ arguments' = JObj(<<>>)
    /\ locals' = NoLocals
    /\ requests' = <<>>
    /\ outcomes' = <<>>
    /\ waited' = 0
    /\ result' = <<>>
    /\ raised' = NoExc

Next == CallTool \/ ReadResource \/ Respond \/ NetworkError \/ Tick \/ Timeout \/ Finish

Spec == Init /\ [][Next]_vars

\* The event loop keeps running and time passes: a pending request's clock
\* advances and its timeout fires.  Nothing is assumed of the upstream.
LiveSpec == Spec /\ WF_vars(Tick) /\ WF_vars(Timeout)

(***************************************************************************)
(* Properties.                                                             *)
(***************************************************************************)
Over == pc \in {"returned", "raised"}

InCallTool == op = "call_tool"

InReadResource == op = "read_resource"

\* The returned value is a non-empty list of text items with non-empty text
IsTextResult(value) ==
    /\ Len(value) > 0
    /\ \A i \in 1..Len(value) : value[i].type = "text" /\ value[i].text # ""

\* The returned value is one message that starts with the error marker
IsErrorShaped(value) == Len(value) = 1 /\ StartsWith(value[1].text, CrossMark)

TimedOut(outcome) == outcome.kind = "error" /\ outcome.exc.type = "ReadTimeout"

\* The outcome is a response whose body decodes to a dict
IsDictResponse(outcome) ==
    outcome.kind = "response" /\ outcome.isJson /\ IsDict(outcome.body)

\* How many times sub occurs in text
Occurrences(text, sub) ==
    Cardinality({i \in 1..(Len(text) - Len(sub) + 1) :
                    SubSeq(text, i, i + Len(sub) - 1) = sub})

\* The first position from which sub occurs in text at or after from; 0 if none
Find(text, sub, from) ==
    LET at == {i \in from..(Len(text) - Len(sub) + 1) :
                  SubSeq(text, i, i + Len(sub) - 1) = sub}
    IN  IF at = {} THEN 0 ELSE CHOOSE i \in at : \A k \in at : i <= k

\* The part of text between the first before and the first after behind it
Between(text, before, after) ==
    LET start == Find(text, before, 1) + Len(before)
    IN  SubSeq(text, start, Find(text, after, start) - 1)

C2_FailureYieldsErrorResult ==
    (/\ InCallTool /\ Over
     /\ \E i \in 1..Len(outcomes) : TimedOut(outcomes[i]) \/ outcomes[i].status = 500)
        => pc = "returned" /\ IsErrorShaped(result)

\* The geocoder's answer carries a non-empty "results" list
HasGeocoderMatch(outcome) ==
    /\ IsDictResponse(outcome)
    /\ HasKey(outcome.body, "results")
    /\ IsList(Lookup(outcome.body, "results"))
    /\ Len(Lookup(outcome.body, "results").items) > 0

\* The geocoder's answer is a dict whose "results" is missing or empty
HasNoGeocoderMatch(outcome) ==
    /\ IsDictResponse(outcome)
    /\ \/ ~HasKey(outcome.body, "results")
       \/ /\ IsList(Lookup(outcome.body, "results"))
          /\ Len(Lookup(outcome.body, "results").items) = 0

\* C3: get_weather issues the forecast request only after the geocoder has
\* answered with a non-empty "results" list; when "results" is missing or
\* empty the call returns the "City ... not found" result after exactly one
\* request.
C3_ForecastOnlyAfterMatch ==
    (InCallTool /\ name = "get_weather") =>
        /\ Len(requests) >= 2 =>
               /\ Len(outcomes) >= 1 /\ HasGeocoderMatch(outcomes[1])
               /\ requests[1] = GeocodingUrl(locals.city)
               /\ StartsWith(requests[2], "https://api.open-meteo.com/v1/forecast?")
        /\ (Len(outcomes) >= 1 /\ HasNoGeocoderMatch(outcomes[1])) =>
               /\ pc = "returned"
               /\ result = <<TextContent(CityNotFoundText(locals.city))>>
               /\ Len(requests) = 1

\* C3 witness: the geocoder answered with an empty "results" list and the
\* call has returned "not found" after one request.
C3_Witness ==
    /\ InCallTool /\ name = "get_weather" /\ pc = "returned"
    /\ Len(outcomes) = 1 /\ IsDictResponse(outcomes[1])
    /\ HasKey(outcomes[1].body, "results") /\ HasNoGeocoderMatch(outcomes[1])
    /\ Len(requests) = 1
    /\ Contains(result[1].text, "not found")

\* C4 (as claimed): in search_books the limit used is within 1..10 and at most
\* 10 books are listed, for every limit asked for and every size of "docs".
C4_LimitWithinDocumentedRange ==
    (InCallTool /\ name = "search_books" /\ Len(requests) >= 1) =>
        /\ locals.limit \in 1..MaxResults
        /\ requests[1] = BooksUrl(locals.query, locals.limit)
        /\ pc = "returned" => Occurrences(result[1].text, "[open-book]") <= MaxResults

\* C5: read_resource of a listed URI issues exactly one GET, and the text it
\* returns decodes back to the upstream's payload.
C5_ResourceIsPassthrough ==
    (InReadResource /\ name \in ListedResources) =>
        /\ Len(requests) = 1
        /\ requests[1] = ResourceUrl(name)
        /\ pc = "returned" =>
               /\ Len(outcomes) = 1 /\ outcomes[1].kind = "response"
               /\ Loads(result).ok
               /\ Loads(result).val = outcomes[1].body

\* C5 witness: a payload with nested members and characters to escape has
\* been passed through.
C5_Witness ==
    /\ InReadResource /\ name \in ListedResources /\ pc = "returned"
    /\ IsDict(outcomes[1].body) /\ HasKey(outcomes[1].body, "a b")
    /\ Contains(result, Backslash \o Quote)
    /\ Loads(result).val = outcomes[1].body

\* C6 (as claimed): read_resource never raises: a failed or undecodable fetch
\* of a listed URI still yields a string, and an unlisted URI yields
\* "Resource not found".
C6_ReadResourceNeverRaises ==
    InReadResource =>
        /\ pc # "raised"
        /\ (pc = "returned" /\ name \notin ListedResources) => result = "Resource not found"

ExpectedFahrenheit(t) ==
    LET x == 18 * t + 320
        a == IF x < 0 THEN 0 - x ELSE x
    IN  (IF x < 0 THEN "-" ELSE "") \o ToString(a \div 10) \o "." \o ToString(a % 10)

\* The forecast's answer carries an integer current temperature
HasIntegerTemperature(outcome) ==
    /\ IsDictResponse(outcome)
    /\ HasKey(outcome.body, "current_weather")
    /\ IsDict(Lookup(outcome.body, "current_weather"))
    /\ HasKey(Lookup(outcome.body, "current_weather"), "temperature")
    /\ IsNum(Lookup(Lookup(outcome.body, "current_weather"), "temperature"))

FirstGeocoderResult(outcome) == Index0(Lookup(outcome.body, "results"))

\* C8: with a geocoder match of country K and a forecast of temperature T,
\* the text of get_weather contains "<city>, K", "T[deg]C" and T * 9 / 5 + 32
\* with one decimal before "[deg]F"; Paris, France, 15 gives "59.0[deg]F".
C8_WeatherText ==
    (/\ InCallTool /\ name = "get_weather" /\ pc = "returned" /\ Len(outcomes) = 2
     /\ HasGeocoderMatch(outcomes[1])
     /\ IsDict(FirstGeocoderResult(outcomes[1]))
     /\ HasKey(FirstGeocoderResult(outcomes[1]), "country")
     /\ IsStr(Lookup(FirstGeocoderResult(outcomes[1]), "country"))
     /\ HasIntegerTemperature(outcomes[2]))
        => LET city == PyStr(DictGet(arguments, "city", JStr("New York")))
               K == Lookup(FirstGeocoderResult(outcomes[1]), "country").s
               T == Lookup(Lookup(outcomes[2].body, "current_weather"), "temperature").n
               text == result[1].text
           IN  /\ Len(result) = 1
               /\ Contains(text, city \o ", " \o K)
               /\ Contains(text, " " \o ToString(T) \o Degree \o "C")
               /\ Contains(text, "(" \o ExpectedFahrenheit(T) \o Degree \o "F)")
               /\ (city = "Paris" /\ K = "France" /\ T = 15) =>
                      /\ Contains(text, "Paris, France")
                      /\ Contains(text, "15" \o Degree \o "C")
                      /\ Contains(text, "59.0" \o Degree \o "F")

\* C8 witness: the weather of Paris, France at 15 degrees has been returned.
C8_Witness ==
    /\ InCallTool /\ name = "get_weather" /\ pc = "returned" /\ Len(outcomes) = 2
    /\ HasGeocoderMatch(outcomes[1]) /\ HasIntegerTemperature(outcomes[2])
    /\ locals.city = "Paris" /\ locals.country = "France"
    /\ Lookup(Lookup(outcomes[2].body, "current_weather"), "temperature") = JNum(15)
    /\ Contains(result[1].text, "59.0" \o Degree \o "F")

\* C9: an invocation of call_tool issues at most 2 GET requests and none
\* after a failed one, and no URL twice; once over, get_weather has issued 1
\* or 2, every other listed tool exactly 1, and an unknown tool none, with
\* the "Unknown tool" result.
C9_RequestCounts ==
    InCallTool =>
        /\ Len(requests) <= 2
        /\ Len(outcomes) <= Len(requests)
        /\ \A i \in 1..Len(outcomes) : FetchExc(outcomes[i]) # NoExc => Len(requests) = i
        /\ Len(requests) = 2 => requests[1] # requests[2]
        /\ name = "get_weather" => Len(requests) \in {1, 2}
        /\ name \in ToolNames \ {"get_weather"} => Len(requests) = 1
        /\ name \notin ToolNames =>
               /\ Len(requests) = 0
               /\ pc = "returned"
               /\ result = <<TextContent(UnknownToolText(name))>>

\* C9 witness: get_weather is over after its two requests.
C9_Witness ==
    /\ InCallTool /\ name = "get_weather" /\ Over
    /\ Len(requests) = 2 /\ Len(outcomes) = 2

\* The upstream text of the field key of the record the text is made from
UpstreamText(record, key) == Lookup(record, key).s

\* What the claim says the field reads as
ExpectedField(upstream, ceiling) ==
    IF Len(upstream) <= ceiling THEN upstream
    ELSE SubSeq(upstream, 1, ceiling) \o "..."

\* The rendered field is the upstream text, cut to the ceiling and marked
\* when longer
IsTruncationOf(rendered, upstream, ceiling) ==
    /\ rendered = ExpectedField(upstream, ceiling)
    /\ Len(rendered) <= ceiling + 3
    /\ \/ rendered = upstream
       \/ /\ Len(upstream) > ceiling
          /\ \E n \in 0..Len(upstream) : rendered = SubSeq(upstream, 1, n) \o "..."

\* The APOD answer that gets rendered: a dict with no "error" and a string
\* "explanation"
HasExplanation(outcome) ==
    /\ IsDictResponse(outcome)
    /\ ~HasKey(outcome.body, "error")
    /\ HasKey(outcome.body, "explanation")
    /\ IsStr(Lookup(outcome.body, "explanation"))

\* The recipe answer that gets rendered: a first meal with string
\* "strInstructions"
HasInstructions(outcome) ==
    /\ IsDictResponse(outcome)
    /\ HasKey(outcome.body, "meals")
    /\ IsList(Lookup(outcome.body, "meals"))
    /\ Len(Lookup(outcome.body, "meals").items) > 0
    /\ IsDict(Index0(Lookup(outcome.body, "meals")))
    /\ HasKey(Index0(Lookup(outcome.body, "meals")), "strInstructions")
    /\ IsStr(Lookup(Index0(Lookup(outcome.body, "meals")), "strInstructions"))

\* C10: the explanation get_nasa_apod shows is the upstream text when that
\* has at most 400 characters and else its first 400 followed by "...";
\* likewise the instructions of search_recipes with 300.  The field shown
\* has at most ceiling + 3 characters.
C10_Truncation ==
    (InCallTool /\ pc = "returned" /\ Len(outcomes) = 1) =>
        /\ (name = "get_nasa_apod" /\ HasExplanation(outcomes[1])) =>
               IsTruncationOf(Between(result[1].text, "[memo] ", "\n\n[link] Image URL: "),
                              UpstreamText(outcomes[1].body, "explanation"),
                              400)
        /\ (name = "search_recipes" /\ HasInstructions(outcomes[1])) =>
               IsTruncationOf(Between(result[1].text, "[cook] Instructions:\n", "\n\n"),
                              UpstreamText(Index0(Lookup(outcomes[1].body, "meals")),
                                           "strInstructions"),
                              300)

\* C10 witness: an explanation one character over the ceiling has been cut.
C10_Witness ==
    /\ InCallTool /\ pc = "returned" /\ name = "get_nasa_apod" /\ Len(outcomes) = 1
    /\ HasExplanation(outcomes[1])
    /\ Len(UpstreamText(outcomes[1].body, "explanation")) = 401
    /\ Len(Between(result[1].text, "[memo] ", "\n\n[link] Image URL: ")) = 403

\* The value under key is absent from record, or present with a value that
\* typed(value) accepts
AbsentOrTyped(record, key, typed(_)) ==
    HasKey(record, key) => typed(Lookup(record, key))

IsListOfStr(j) == IsList(j) /\ \A i \in 1..Len(j.items) : IsStr(j.items[i])

\* A tag is a dict whose "name" is absent or a string
IsTagRecord(j) == IsDict(j) /\ AbsentOrTyped(j, "name", IsStr)

IsListOfTags(j) == IsList(j) /\ \A i \in 1..Len(j.items) : IsTagRecord(j.items[i])

IsNonEmptyListOfStr(j) == IsListOfStr(j) /\ Len(j.items) > 0

\* The geocoder matched a record whose fields are absent or of their type
HasGeocoderRecord(outcome) ==
    /\ HasGeocoderMatch(outcome)
    /\ IsDict(FirstGeocoderResult(outcome))
    /\ AbsentOrTyped(FirstGeocoderResult(outcome), "latitude", IsNum)
    /\ AbsentOrTyped(FirstGeocoderResult(outcome), "longitude", IsNum)
    /\ AbsentOrTyped(FirstGeocoderResult(outcome), "country", IsStr)

\* The artist search matched a record whose fields are absent or of their type
HasArtistRecord(outcome) ==
    /\ IsDictResponse(outcome)
    /\ HasKey(outcome.body, "artists")
    /\ IsList(Lookup(outcome.body, "artists"))
    /\ Len(Lookup(outcome.body, "artists").items) > 0
    /\ LET artist == Index0(Lookup(outcome.body, "artists"))
       IN  /\ IsDict(artist)
           /\ AbsentOrTyped(artist, "life-span", IsDict)
           /\ AbsentOrTyped(artist, "tags", IsListOfTags)

\* The book search matched records whose fields are absent or of their type
HasBookRecords(outcome) ==
    /\ IsDictResponse(outcome)
    /\ HasKey(outcome.body, "docs")
    /\ IsList(Lookup(outcome.body, "docs"))
    /\ Len(Lookup(outcome.body, "docs").items) > 0
    /\ \A i \in 1..Len(Lookup(outcome.body, "docs").items) :
           LET book == Lookup(outcome.body, "docs").items[i]
           IN  /\ IsDict(book)
               /\ AbsentOrTyped(book, "author_name", IsListOfStr)
               /\ AbsentOrTyped(book, "isbn", IsNonEmptyListOfStr)
               /\ AbsentOrTyped(book, "subject", IsListOfStr)

\* C11 (as claimed): when the one upstream answer of a call decoded to a
\* payload with a matched record, and every field the handler reads from
\* that record is either absent or of its expected type, the call does not
\* take the exception path: get_weather, search_spotify_artist and
\* search_books do not return the error-marked message.
C11_MissingFieldYieldsDefault ==
    (InCallTool /\ pc = "returned" /\ Len(outcomes) = 1) =>
        /\ (name = "get_weather" /\ HasGeocoderRecord(outcomes[1])) =>
               ~IsErrorShaped(result)
        /\ (name = "search_spotify_artist" /\ HasArtistRecord(outcomes[1])) =>
               ~IsErrorShaped(result)
        /\ (name = "search_books" /\ HasBookRecords(outcomes[1])) =>
               ~IsErrorShaped(result)

=============================================================================
